---- MODULE Spec2Model ----
(***************************************************************************)
(* Model of the on-demand HLS transcode-and-serve pipeline of fpcsa/mam:   *)
(* the VOD server (src/vod_main_server.py), its Redis adapter              *)
(* (src/redis_adapter.py) and the transcoding server                       *)
(* (src/video_transcoding_main_server.py).                                 *)
(*                                                                         *)
(* Text (object keys, paths, playlists, URLs) is a sequence of tokens, so  *)
(* that str.splitlines, str.strip, str.endswith, "\n".join, Path.stem and  *)
(* the Object Store's prefix listing are computed, not assumed.            *)
(***************************************************************************)
EXTENDS Integers, Sequences, FiniteSets, TLC

VARIABLES
    secret,     \* TRANSCODE_API_KEY of the deployment (None when unset)
    store,      \* Object Store: bucket -> (object key -> content)
    redis,      \* Cache Store: prefixed key -> entry
    fs,         \* transcoding server's working directory: existing tmp_* folders
    resp,       \* the response of the last handled request, with its trace
    raw,        \* Playlist Signer harness: the raw playlist text
    signed,     \* Playlist Signer harness: the outcome of the signing pass
    now,        \* the clock, in seconds
    hist,       \* history: the asset identity behind each playlist cache entry
    proc,       \* concurrent workers: each worker's request and its position in it
    disk        \* transcoding server's working directory: file path -> content

vars == <<secret, store, redis, fs, resp, raw, signed, now, hist, proc, disk>>

\* what the handlers taken as a whole never write
aux == <<now, hist, proc, disk>>

----------------------------------------------------------------------------
(* Bounds of the model *)

\* longest raw playlist text (in tokens) the Signer harness enumerates
MaxTextLen == 4

----------------------------------------------------------------------------
(* Text *)

NL == "\n"
SP == " "
TS == ".ts"

\* tokens a raw playlist is made of
Alphabet == {NL, SP, "#EXTM3U", "seg0", TS}

RECURSIVE TextsOfLen(_)
TextsOfLen(n) ==
    IF n = 0 THEN {<<>>}
    ELSE {Append(t, c) : t \in TextsOfLen(n - 1), c \in Alphabet}

Texts == UNION {TextsOfLen(n) : n \in 0..MaxTextLen}

\* index of the first line break of t, 0 when there is none
RECURSIVE FirstNL(_, _)
FirstNL(t, i) ==
    IF i > Len(t) THEN 0
    ELSE IF t[i] = NL THEN i
    ELSE FirstNL(t, i + 1)

\* str.splitlines(): the lines without their line breaks; a trailing line
\* break opens no further line, and the empty text has no line
RECURSIVE splitlines(_)
splitlines(t) ==
    IF t = <<>> THEN <<>>
    ELSE LET i == FirstNL(t, 1) IN
         IF i = 0 THEN <<t>>
         ELSE <<SubSeq(t, 1, i - 1)>> \o splitlines(SubSeq(t, i + 1, Len(t)))

RECURSIVE lstrip(_)
lstrip(l) == IF l # <<>> /\ Head(l) = SP THEN lstrip(Tail(l)) ELSE l

RECURSIVE rstrip(_)
rstrip(l) ==
    IF l # <<>> /\ l[Len(l)] = SP THEN rstrip(SubSeq(l, 1, Len(l) - 1)) ELSE l

\* str.strip()
strip(l) == rstrip(lstrip(l))

\* str.endswith(".ts")
endswith_ts(l) == l # <<>> /\ l[Len(l)] = TS

\* "\n".join(lines)
RECURSIVE join(_)
join(lines) ==
    IF lines = <<>> THEN <<>>
    ELSE IF Len(lines) = 1 THEN lines[1]
    ELSE lines[1] \o <<NL>> \o join(Tail(lines))

----------------------------------------------------------------------------
(* Paths, object keys and the Object Store *)

None == "<None>"

Suffixes == {".mp4", ".m3u8", ".jpg", TS}

\* index of the last "/" of p at or before i, 0 when there is none
RECURSIVE LastSlash(_, _)
LastSlash(p, i) ==
    IF i = 0 THEN 0
    ELSE IF p[i] = "/" THEN i
    ELSE LastSlash(p, i - 1)

\* Path(p).stem: the final path component without its last suffix
stem(p) ==
    LET b == SubSeq(p, LastSlash(p, Len(p)) + 1, Len(p)) IN
    IF Len(b) > 1 /\ b[Len(b)] \in Suffixes THEN SubSeq(b, 1, Len(b) - 1) ELSE b

\* MINIO_BUCKET_VOD, and the bucket the source media are kept in
MINIO_BUCKET_VOD == "vod"
Buckets == {"vod", "media"}

\* source media of the deployment (video_path / asset_object values)
VideoPaths == {<<"a", ".mp4">>, <<"a", "b", ".mp4">>}
VideoNames == {stem(p) : p \in VideoPaths}

ImgPath == <<"t", ".jpg">>

\* f"{video_name}/index.m3u8"
playlist_key_of(video_name) == video_name \o <<"/", "index", ".m3u8">>

\* f"{video_name}/{segment}"
ts_key_of(video_name, segment) == video_name \o <<"/">> \o segment

IsPrefix(p, k) == Len(p) <= Len(k) /\ SubSeq(k, 1, Len(p)) = p

Has(st, bucket, key) == key \in DOMAIN st[bucket]

\* client_minio.list_objects(bucket, prefix=prefix, recursive=True)
list_objects(st, bucket, prefix) == {k \in DOMAIN st[bucket] : IsPrefix(prefix, k)}

\* client_minio.fput_object(bucket, key, file)
put_object(st, bucket, key, content) ==
    [st EXCEPT ![bucket] =
        [k \in DOMAIN st[bucket] \cup {key} |->
            IF k = key THEN content ELSE st[bucket][k]]]

\* remove_objects removing nothing
remove_objects_none(st, bucket, keys) == st

\* client_minio.remove_objects(bucket, keys), every deletion succeeding
remove_objects(st, bucket, keys) ==
    [st EXCEPT ![bucket] = [k \in DOMAIN st[bucket] \ keys |-> st[bucket][k]]]

\* client_minio.presigned_get_object(bucket, key, expires=timedelta(seconds=3600))
URL_EXPIRES_SECONDS == 3600

presigned_get_object(bucket, key, expires) ==
    <<"http://minio/", bucket, "/">> \o key
        \o <<"?X-Amz-Date=", ToString(now), "&X-Amz-Expires=", ToString(expires)>>

----------------------------------------------------------------------------
(* Cache Store (src/redis_adapter.py) *)

REDIS_VIDEO_PREFIX == "vod:playlist"
REDIS_IMAGE_PREFIX == "vod:thumbnail"
REDIS_TTL_SECONDS == 2700

ImgBucket == "media"
ImgKeys == {<<ImgBucket, "/">> \o ImgPath}
CacheNames == VideoNames \cup ImgKeys
RedisKeys == {<<p, n>> : p \in {REDIS_VIDEO_PREFIX, REDIS_IMAGE_PREFIX}, n \in CacheNames}

NoEntry == [present |-> FALSE, text |-> <<>>, ttl |-> 0, at |-> 0]

\* redis_client.get(key): the text, or None
redis_get(r, key) == IF r[key].present THEN r[key].text ELSE None

\* redis_client.setex(key, ttl, text): the entry lives ttl seconds from now
redis_setex(r, key, ttl, text) ==
    [r EXCEPT ![key] = [present |-> TRUE, text |-> text, ttl |-> ttl, at |-> now]]

\* redis_client.delete(key): the store without the key, and the number removed
redis_delete(r, key) == [r EXCEPT ![key] = NoEntry]
redis_deleted(r, key) == IF r[key].present THEN 1 ELSE 0

get_cached_playlist(r, video_name) == redis_get(r, <<REDIS_VIDEO_PREFIX, video_name>>)

\* set_cached_playlist keeping the entry as long as a signed URL lasts
set_cached_playlist_hour(r, video_name, m3u8_text) ==
    redis_setex(r, <<REDIS_VIDEO_PREFIX, video_name>>, URL_EXPIRES_SECONDS, m3u8_text)

set_cached_playlist(r, video_name, m3u8_text) ==
    redis_setex(r, <<REDIS_VIDEO_PREFIX, video_name>>, REDIS_TTL_SECONDS, m3u8_text)

\* invalidate_playlist_cache dropping the thumbnail entries of the name too
invalidate_playlist_cache_all(r, video_name) ==
    [key \in RedisKeys |-> IF key[1] = REDIS_VIDEO_PREFIX THEN NoEntry ELSE r[key]]

invalidate_playlist_cache(r, video_name) ==
    redis_delete(r, <<REDIS_VIDEO_PREFIX, video_name>>)

get_cached_thumbnail(r, img_key) == redis_get(r, <<REDIS_IMAGE_PREFIX, img_key>>)

set_cached_thumbnail(r, img_key, url) ==
    redis_setex(r, <<REDIS_IMAGE_PREFIX, img_key>>, REDIS_TTL_SECONDS, url)

invalidate_thumbnail_cache(r, img_key) ==
    redis_delete(r, <<REDIS_IMAGE_PREFIX, img_key>>)

\* Python truth value of an Optional[str]: None and "" are false
Truthy(x) == x # None /\ x # <<>>

----------------------------------------------------------------------------
(* Playlist Signer: the signing loop of serve_signed_playlist *)

\* The loop over m3u8_text.splitlines(), from line i on; failAt is the line
\* at which presigned_get_object raises (0: it never raises).
\* sign_from testing line.endswith(".ts") without strip()
RECURSIVE sign_from_unstripped(_, _, _, _, _, _)
sign_from_unstripped(lines, i, video_name, failAt, acc, calls) ==
    IF i > Len(lines) THEN [ok |-> TRUE, lines |-> acc, calls |-> calls]
    ELSE IF endswith_ts(lines[i]) THEN
        IF i = failAt THEN [ok |-> FALSE, lines |-> acc, calls |-> calls + 1]
        ELSE sign_from_unstripped(lines, i + 1, video_name, failAt,
                 Append(acc, presigned_get_object(MINIO_BUCKET_VOD,
                                 ts_key_of(video_name, strip(lines[i])),
                                 URL_EXPIRES_SECONDS)),
                 calls + 1)
    ELSE sign_from_unstripped(lines, i + 1, video_name, failAt,
                              Append(acc, lines[i]), calls)

RECURSIVE sign_from(_, _, _, _, _, _)
sign_from(lines, i, video_name, failAt, acc, calls) ==
    IF i > Len(lines) THEN [ok |-> TRUE, lines |-> acc, calls |-> calls]
    ELSE IF endswith_ts(strip(lines[i])) THEN
        IF i = failAt THEN [ok |-> FALSE, lines |-> acc, calls |-> calls + 1]
        ELSE sign_from(lines, i + 1, video_name, failAt,
                 Append(acc, presigned_get_object(MINIO_BUCKET_VOD,
                                 ts_key_of(video_name, strip(lines[i])),
                                 URL_EXPIRES_SECONDS)),
                 calls + 1)
    ELSE sign_from(lines, i + 1, video_name, failAt, Append(acc, lines[i]), calls)

sign_playlist(m3u8_text, video_name, failAt) ==
    sign_from(splitlines(m3u8_text), 1, video_name, failAt, <<>>, 0)

----------------------------------------------------------------------------
(* Transcode Job Runner (src/video_transcoding_main_server.py) *)

\* number of segments the transcoder cuts a source into
NumSegments == 1

\* number of distinct uuid4().hex[:6] values the model draws from
NumIds == 2

WorkspaceIds == {<<"tmp_", ToString(i)>> : i \in 1..NumIds}

\* files convert_to_hls leaves in output_dir, relative to it
PlaylistFile == <<"index", ".m3u8">>
SegmentFile(i) == <<"index", ToString(i), TS>>
HlsFiles == {PlaylistFile} \cup {SegmentFile(i) : i \in 0..(NumSegments - 1)}

\* reencode: c_v='libx264', c_a='aac'; otherwise codec='copy'
Codec(reencode) == IF reencode THEN "libx264+aac" ELSE "copy"

\* Segments are cut at key frames, hls_time=10 being the least duration: the
\* copied streams keep the key frames of the source, the re-encoded ones get
\* those of the encoder, so the durations the playlist states go with the mode.
Cut(reencode) == IF reencode THEN "encoder-keyframes" ELSE "source-keyframes"

RECURSIVE HlsEntries(_, _)
HlsEntries(i, reencode) ==
    IF i >= NumSegments THEN <<>>
    ELSE <<"#EXTINF:", Cut(reencode), ",", NL>> \o SegmentFile(i) \o <<NL>>
            \o HlsEntries(i + 1, reencode)

\* content of a file ffmpeg wrote: the playlist names every segment in order
HlsContent(file, reencode) ==
    IF file = PlaylistFile
    THEN <<"#EXTM3U", NL>> \o HlsEntries(0, reencode) \o <<"#EXT-X-ENDLIST", NL>>
    ELSE <<"ts", Codec(reencode)>>

\* convert_to_hls: the files in output_dir once ffmpeg.run has returned
convert_to_hls(reencode) == [f \in HlsFiles |-> HlsContent(f, reencode)]

\* every order in which local_dir.rglob("*") may yield the files
RECURSIVE Orders(_)
Orders(S) ==
    IF S = {} THEN {<<>>}
    ELSE UNION {{<<f>> \o o : o \in Orders(S \ {f})} : f \in S}

\* What may go wrong in one job: the step that raises (at: the upload that
\* raises), and the order in which the produced files are uploaded.
SomeOrder == CHOOSE o \in Orders(HlsFiles) : TRUE
JobEnvs ==
    {[step |-> s, at |-> 0, order |-> SomeOrder] :
        s \in {"none", "fget1", "fget2", "ffmpeg"}}
    \cup {[step |-> "upload", at |-> k, order |-> o] :
            k \in 1..Cardinality(HlsFiles), o \in Orders(HlsFiles)}

\* download_file's except clause leaving the folder
download_file_except_keep(dirs, folder) == dirs

\* shutil.rmtree(folder): the folder goes with everything below it
rmtree(dirs, folder) == {d \in dirs : ~IsPrefix(folder, d)}

\* download_file's except clause: delete the folder if it exists
download_file_except(dirs, folder) == rmtree(dirs, folder)

\* transcode_video's finally clause: tmp_video_folder is bound only once
\* download_file has returned; unbound, reading it raises and removes nothing
transcode_finally(dirs, bound, folder) == IF bound THEN rmtree(dirs, folder) ELSE dirs

\* upload_file(local_file, bucket_name, object_name)
upload_file(st, bucket_name, object_name, content) ==
    put_object(st, bucket_name, object_name, content)

\* f"{object_prefix}/{relative_path}"
object_name_of(object_prefix, relative_path) == object_prefix \o <<"/">> \o relative_path

\* upload_folder: the files of local_dir in rglob order, stopping at the
\* upload that raises
RECURSIVE upload_folder(_, _, _, _, _, _, _)
upload_folder(st, local_dir, bucket_name, object_prefix, order, i, failAt) ==
    IF i > Len(order) THEN [ok |-> TRUE, store |-> st, uploads |-> i - 1]
    ELSE IF i = failAt THEN [ok |-> FALSE, store |-> st, uploads |-> i - 1]
    ELSE upload_folder(upload_file(st, bucket_name,
                                   object_name_of(object_prefix, order[i]),
                                   local_dir[order[i]]),
                       local_dir, bucket_name, object_prefix, order, i + 1, failAt)

\* x_api_key != TRANSCODE_API_KEY raises 403; a missing header is None
Authorized(x_api_key) == x_api_key = secret

\* Body of transcode_video after the header check: download_file,
\* convert_to_hls, upload_folder, and the finally clause.
transcode_job(st, dirs, asset_bucket, asset_object, reencode, folder, env) ==
    LET video_name == stem(asset_object)
        made == dirs \cup {folder}
        fget1 == Has(st, asset_bucket, asset_object) /\ env.step # "fget1"
        fget2 == fget1 /\ env.step # "fget2"
    IN  IF ~fget2 THEN
            [status |-> 500, failed |-> "download", store |-> st, ffmpeg |-> 0,
             uploads |-> 0,
             fs |-> transcode_finally(download_file_except(made, folder), FALSE, folder)]
        ELSE IF env.step = "ffmpeg" THEN
            [status |-> 500, failed |-> "ffmpeg", store |-> st, ffmpeg |-> 1,
             uploads |-> 0,
             fs |-> transcode_finally(made, TRUE, folder)]
        ELSE CHOOSE r \in
            {[status |-> IF up.ok THEN 200 ELSE 500,
              failed |-> IF up.ok THEN "none" ELSE "upload",
              store |-> up.store, ffmpeg |-> 1, uploads |-> up.uploads,
              fs |-> transcode_finally(made, TRUE, folder)]
             : up \in {upload_folder(st, convert_to_hls(reencode), MINIO_BUCKET_VOD,
                                     video_name, env.order, 1,
                                     IF env.step = "upload" THEN env.at ELSE 0)}} : TRUE

\* @app.post("/transcode")
transcode_video(st, dirs, asset_bucket, asset_object, reencode, x_api_key, folder, env) ==
    IF ~Authorized(x_api_key) THEN
        [status |-> 403, failed |-> "auth", store |-> st, ffmpeg |-> 0,
         uploads |-> 0, fs |-> dirs]
    ELSE transcode_job(st, dirs, asset_bucket, asset_object, reencode, folder, env)

----------------------------------------------------------------------------
(* Cache-Aside Playlist Resolver (src/vod_main_server.py) *)

POLL_ATTEMPTS == 10

\* auto_transcode: POST the job with the configured key as x-api-key; any
\* exception and any non-2xx answer give False
\* (failed: what made it fail, for the trace of the request)
auto_transcode(st, dirs, video_bucket, video_path, reencode, net, folder, env) ==
    IF net = "down" THEN [ok |-> FALSE, failed |-> "net", store |-> st, fs |-> dirs]
    ELSE LET r == transcode_video(st, dirs, video_bucket, video_path, reencode,
                                  secret, folder, env)
         IN  [ok |-> r.status = 200, failed |-> r.failed, store |-> r.store, fs |-> r.fs]

\* for _ in range(10): attempt i of the poll loop. The Object Store returns
\* the playlist from attempt k on, if it holds it; every failed attempt is
\* followed by time.sleep(1).
\* poll_loop with range(9)
RECURSIVE poll_loop_nine(_, _, _, _, _, _)
poll_loop_nine(st, playlist_key, i, k, reads, sleeps) ==
    IF i > POLL_ATTEMPTS - 1 THEN
        [found |-> FALSE, text |-> <<>>, reads |-> reads, sleeps |-> sleeps]
    ELSE IF Has(st, MINIO_BUCKET_VOD, playlist_key) /\ i >= k THEN
        [found |-> TRUE, text |-> st[MINIO_BUCKET_VOD][playlist_key],
         reads |-> reads + 1, sleeps |-> sleeps]
    ELSE poll_loop_nine(st, playlist_key, i + 1, k, reads + 1, sleeps + 1)

\* poll_loop sleeping before every attempt instead of after a failed one
RECURSIVE poll_loop_sleep_first(_, _, _, _, _, _)
poll_loop_sleep_first(st, playlist_key, i, k, reads, sleeps) ==
    IF i > POLL_ATTEMPTS THEN
        [found |-> FALSE, text |-> <<>>, reads |-> reads, sleeps |-> sleeps]
    ELSE IF Has(st, MINIO_BUCKET_VOD, playlist_key) /\ i >= k THEN
        [found |-> TRUE, text |-> st[MINIO_BUCKET_VOD][playlist_key],
         reads |-> reads + 1, sleeps |-> sleeps + 1]
    ELSE poll_loop_sleep_first(st, playlist_key, i + 1, k, reads + 1, sleeps + 1)

RECURSIVE poll_loop(_, _, _, _, _, _)
poll_loop(st, playlist_key, i, k, reads, sleeps) ==
    IF i > POLL_ATTEMPTS THEN
        [found |-> FALSE, text |-> <<>>, reads |-> reads, sleeps |-> sleeps]
    ELSE IF Has(st, MINIO_BUCKET_VOD, playlist_key) /\ i >= k THEN
        [found |-> TRUE, text |-> st[MINIO_BUCKET_VOD][playlist_key],
         reads |-> reads + 1, sleeps |-> sleeps]
    ELSE poll_loop(st, playlist_key, i + 1, k, reads + 1, sleeps + 1)

\* except Exception as e: raise HTTPException(500, f"Transcoding exception: {e}")
\* wraps whatever the lazy-transcode block raised, HTTPException included
transcoding_exception(inner_status, inner_detail) ==
    [status |-> 500, detail |-> "Transcoding exception", cause |-> inner_detail]

\* What the environment does to one playlist request: whether the first read
\* returns the object the store holds, whether the job submission gets through,
\* what fails in the job, and the poll attempt k from which the store returns
\* the playlist (POLL_ATTEMPTS + 1: not within this request).
FetchInputs ==
    {[first |-> TRUE, net |-> "down", env |-> e, k |-> 1] :
        e \in {x \in JobEnvs : x.step = "none"}}
    \cup {[first |-> FALSE, net |-> "down", env |-> e, k |-> 1] :
        e \in {x \in JobEnvs : x.step = "none"}}
    \cup {[first |-> FALSE, net |-> "ok", env |-> e, k |-> 1] :
        e \in {x \in JobEnvs : x.step # "none"}}
    \cup {[first |-> FALSE, net |-> "ok", env |-> e, k |-> k] :
        e \in {x \in JobEnvs : x.step = "none"}, k \in 1..(POLL_ATTEMPTS + 1)}

\* Lines 148-156: the poll loop after a submission that succeeded
poll_for_playlist(sub, playlist_key, k) ==
    CHOOSE r \in
        {IF poll.found THEN
            [ok |-> TRUE, text |-> poll.text, status |-> 200, detail |-> "",
             cause |-> "", reads |-> poll.reads, sleeps |-> poll.sleeps,
             submits |-> 1, k |-> k, failed |-> sub.failed,
             store |-> sub.store, fs |-> sub.fs]
         ELSE
            [ok |-> FALSE, text |-> <<>>,
             status |-> transcoding_exception(504,
                            "Playlist still not available after transcoding").status,
             detail |-> "Transcoding exception",
             cause |-> "Playlist still not available after transcoding",
             reads |-> poll.reads, sleeps |-> poll.sleeps,
             submits |-> 1, k |-> k, failed |-> sub.failed,
             store |-> sub.store, fs |-> sub.fs]
         : poll \in {poll_loop(sub.store, playlist_key, 1, k, 1, 0)}} : TRUE

\* lazy_transcode going on to the poll loop whatever auto_transcode returned
lazy_transcode_unchecked(sub, playlist_key, k) == poll_for_playlist(sub, playlist_key, k)

\* Lines 141-158: the lazy transcode, entered when the first read raised
lazy_transcode(sub, playlist_key, k) ==
    IF ~sub.ok THEN
        [ok |-> FALSE, text |-> <<>>,
         status |-> transcoding_exception(500, "Auto-transcoding failed").status,
         detail |-> "Transcoding exception", cause |-> "Auto-transcoding failed",
         reads |-> 1, sleeps |-> 0, submits |-> 1, k |-> 0, failed |-> sub.failed,
         store |-> sub.store, fs |-> sub.fs]
    ELSE poll_for_playlist(sub, playlist_key, k)

\* Lines 135-158: the first read, and on any exception the lazy transcode:
\* job submission, then the poll loop.
fetch_or_transcode(st, dirs, video_bucket, video_path, reencode, folder, in) ==
    LET playlist_key == playlist_key_of(stem(video_path))
    IN  IF Has(st, MINIO_BUCKET_VOD, playlist_key) /\ in.first THEN
            [ok |-> TRUE, text |-> st[MINIO_BUCKET_VOD][playlist_key], status |-> 200,
             detail |-> "", cause |-> "", reads |-> 1, sleeps |-> 0, submits |-> 0,
             k |-> 0, failed |-> "", store |-> st, fs |-> dirs]
        ELSE CHOOSE r \in
                {lazy_transcode(sub, playlist_key, in.k) :
                    sub \in {auto_transcode(st, dirs, video_bucket, video_path,
                                            reencode, in.net, folder, in.env)}} : TRUE

\* Lines 160-179 (and 95-117): sign every segment line, then cache and return
\* the joined text; a signing error raises before anything is cached
\* cache_and_return caching what was signed so far when a signing fails
cache_and_return_partial(r, video_name, s, final_m3u8) ==
    [status |-> IF s.ok THEN 200 ELSE 500,
     detail |-> IF s.ok THEN "" ELSE "Error signing",
     body |-> IF s.ok THEN final_m3u8 ELSE <<>>,
     signs |-> s.calls, redis |-> set_cached_playlist(r, video_name, final_m3u8)]

cache_and_return(r, video_name, s, final_m3u8) ==
    IF ~s.ok THEN
        [status |-> 500, detail |-> "Error signing", body |-> <<>>,
         signs |-> s.calls, redis |-> r]
    ELSE
        [status |-> 200, detail |-> "", body |-> final_m3u8,
         signs |-> s.calls, redis |-> set_cached_playlist(r, video_name, final_m3u8)]

sign_and_cache(r, video_name, m3u8_text, failAt) ==
    CHOOSE d \in
        {cache_and_return(r, video_name, s, final_m3u8) :
            s \in {sign_playlist(m3u8_text, video_name, failAt)},
            final_m3u8 \in {join(sign_playlist(m3u8_text, video_name, failAt).lines)}}
        : TRUE

----------------------------------------------------------------------------
(* State *)

\* values of the x-api-key header; None: the header is missing
Headers == {None, "s3cret", "wrong"}

\* no request in progress; also the shape of every response record
Idle ==
    [op |-> "idle", name |-> <<>>, bucket |-> "", hdr |-> None, status |-> 0,
     detail |-> "", cause |-> "", body |-> <<>>, hit |-> FALSE, reads |-> 0,
     sleeps |-> 0, submits |-> 0, k |-> 0, signs |-> 0, failed |-> "",
     ffmpeg |-> 0, uploads |-> 0, listed |-> {}]

Unsigned == [ok |-> FALSE, lines |-> <<>>, calls |-> 0, name |-> <<>>, failAt |-> -1]

\* no cache entry written yet, no worker busy, no file in the working directory
NoHist == [writer |-> [n \in VideoNames |-> <<>>], req |-> <<>>]
NoWorkers == <<>>
NoFiles == <<>>

\* the media bucket holds the source a.mp4 and a thumbnail; ab.mp4 is not there
Sources == [k \in {<<"a", ".mp4">>, ImgPath} |-> IF k = ImgPath THEN <<"jpg">> ELSE <<"mp4">>]

\* the asset ab, transcoded earlier, is in the VOD bucket
Transcoded(video_name) ==
    [k \in {object_name_of(video_name, f) : f \in HlsFiles} |->
        HlsContent(SubSeq(k, Len(video_name) + 2, Len(k)), FALSE)]

\* a/index.m3u8 may be there too, left with no content by an interrupted upload
InitialStores ==
    {[b \in Buckets |-> IF b = MINIO_BUCKET_VOD THEN Transcoded(<<"a", "b">>) ELSE Sources],
     [b \in Buckets |->
        IF b = MINIO_BUCKET_VOD
        THEN [k \in DOMAIN Transcoded(<<"a", "b">>) \cup {playlist_key_of(<<"a">>)} |->
                IF k = playlist_key_of(<<"a">>) THEN <<>> ELSE Transcoded(<<"a", "b">>)[k]]
        ELSE Sources]}

Init ==
    /\ secret \in {None, "s3cret"}
    /\ store \in InitialStores
    /\ redis = [k \in RedisKeys |-> NoEntry]
    /\ fs = {}
    /\ resp = Idle
    /\ raw = <<>>
    /\ signed = Unsigned
    /\ now = 0
    /\ hist = NoHist
    /\ proc = NoWorkers
    /\ disk = NoFiles

----------------------------------------------------------------------------
(* Handlers: one action per endpoint *)

\* @app.get("/stream/{video_bucket}/{video_path:path}/playlist.m3u8"): the
\* handler on one request
stream_request(video_bucket, video_path, reencode) ==
    LET video_name == stem(video_path)
        cached == get_cached_playlist(redis, video_name)
        R == [Idle EXCEPT !.op = "stream_playlist", !.name = video_name,
                          !.bucket = video_bucket]
    IN  IF Truthy(cached) THEN
            /\ resp' = [R EXCEPT !.status = 200, !.body = cached, !.hit = TRUE]
            /\ UNCHANGED <<store, redis, fs>>
        ELSE \E in \in FetchInputs, folder \in WorkspaceIds :
          \E f \in {fetch_or_transcode(store, fs, video_bucket, video_path,
                                        reencode, folder, in)} :
            LET F == [R EXCEPT !.reads = f.reads, !.sleeps = f.sleeps,
                               !.submits = f.submits, !.k = f.k,
                               !.failed = f.failed]
            IN  IF ~f.ok THEN
                    /\ resp' = [F EXCEPT !.status = f.status, !.detail = f.detail,
                                         !.cause = f.cause]
                    /\ store' = f.store
                    /\ fs' = f.fs
                    /\ redis' = redis
                ELSE \E failAt \in 0..Len(splitlines(f.text)) :
                    \E d \in {sign_and_cache(redis, video_name, f.text, failAt)} :
                        /\ resp' = [F EXCEPT !.status = d.status, !.detail = d.detail,
                                             !.body = d.body, !.signs = d.signs]
                        /\ store' = f.store
                        /\ fs' = f.fs
                        /\ redis' = d.redis

serve_signed_playlist_stream ==
    /\ resp = Idle
    /\ \E video_bucket \in Buckets, video_path \in VideoPaths, reencode \in BOOLEAN :
        stream_request(video_bucket, video_path, reencode)
    /\ UNCHANGED <<secret, raw, signed>>

\* @app.get("/video/{video_name}/playlist.m3u8")
serve_signed_playlist_video ==
    /\ resp = Idle
    /\ \E video_name \in VideoNames, first \in BOOLEAN :
        LET cached == get_cached_playlist(redis, video_name)
            playlist_key == playlist_key_of(video_name)
            R == [Idle EXCEPT !.op = "video_playlist", !.name = video_name,
                              !.bucket = MINIO_BUCKET_VOD]
        IN  IF Truthy(cached) THEN
                /\ resp' = [R EXCEPT !.status = 200, !.body = cached, !.hit = TRUE]
                /\ redis' = redis
            ELSE IF ~(Has(store, MINIO_BUCKET_VOD, playlist_key) /\ first) THEN
                /\ resp' = [R EXCEPT !.status = 404, !.detail = "Cannot fetch playlist",
                                     !.reads = 1]
                /\ redis' = redis
            ELSE \E failAt \in
                     0..Len(splitlines(store[MINIO_BUCKET_VOD][playlist_key])) :
                \E d \in {sign_and_cache(redis, video_name,
                                        store[MINIO_BUCKET_VOD][playlist_key], failAt)} :
                    /\ resp' = [R EXCEPT !.status = d.status, !.detail = d.detail,
                                         !.body = d.body, !.signs = d.signs,
                                         !.reads = 1]
                    /\ redis' = d.redis
    /\ UNCHANGED <<secret, store, fs, raw, signed>>

\* @app.post("/transcode") called directly
post_transcode ==
    /\ resp = Idle
    /\ \E asset_bucket \in Buckets, asset_object \in VideoPaths, reencode \in BOOLEAN,
          x_api_key \in Headers, folder \in WorkspaceIds :
        \E env \in IF Authorized(x_api_key) THEN JobEnvs
                   ELSE {e \in JobEnvs : e.step = "none"} :
        \E r \in {transcode_video(store, fs, asset_bucket, asset_object, reencode,
                                  x_api_key, folder, env)} :
            /\ resp' = [Idle EXCEPT !.op = "transcode", !.name = stem(asset_object),
                                    !.bucket = asset_bucket, !.hdr = x_api_key,
                                    !.status = r.status, !.failed = r.failed,
                                    !.ffmpeg = r.ffmpeg, !.uploads = r.uploads]
            /\ store' = r.store
            /\ fs' = r.fs
    /\ UNCHANGED <<secret, redis, raw, signed>>

\* @app.delete("/cache/video/{video_name}")
delete_cache_video ==
    /\ resp = Idle
    /\ \E video_name \in VideoNames, x_api_key \in Headers :
        LET R == [Idle EXCEPT !.op = "delete_cache_video", !.name = video_name,
                              !.hdr = x_api_key]
        IN  IF ~Authorized(x_api_key) THEN
                /\ resp' = [R EXCEPT !.status = 403, !.detail = "Unauthorized"]
                /\ redis' = redis
            ELSE
                /\ resp' = [R EXCEPT !.status = 200,
                               !.detail =
                                  IF redis_deleted(redis, <<REDIS_VIDEO_PREFIX, video_name>>) > 0
                                  THEN "Cache cleared" ELSE "Cache error"]
                /\ redis' = invalidate_playlist_cache(redis, video_name)
    /\ UNCHANGED <<secret, store, fs, raw, signed>>

\* What the Object Store does to one delete stream request: nothing, the
\* listing raises, or the removal of one listed object reports an error.
DeleteInputs(listed) ==
    {[list_error |-> FALSE, del_errors |-> {}], [list_error |-> TRUE, del_errors |-> {}]}
    \cup {[list_error |-> FALSE, del_errors |-> {k}] : k \in listed}

\* @app.delete("/stream/{video_bucket}/{video_path:path}/playlist.m3u8")
delete_stream_video ==
    /\ resp = Idle
    /\ \E video_bucket \in Buckets, video_path \in VideoPaths, x_api_key \in Headers :
        LET video_name == stem(video_path)
            playlist_folder == video_name
            objects_to_delete == list_objects(store, video_bucket, playlist_folder)
            R == [Idle EXCEPT !.op = "delete_stream", !.name = video_name,
                              !.bucket = video_bucket, !.hdr = x_api_key]
        IN  IF ~Authorized(x_api_key) THEN
                /\ resp' = [R EXCEPT !.status = 403, !.detail = "Unauthorized"]
                /\ UNCHANGED <<store, redis>>
            ELSE \E in \in DeleteInputs(objects_to_delete) :
                /\ redis' = invalidate_playlist_cache(redis, video_name)
                /\ IF in.list_error THEN
                        /\ resp' = [R EXCEPT !.status = 500, !.detail = "Exception",
                                             !.failed = "list"]
                        /\ store' = store
                   ELSE IF objects_to_delete = {} THEN
                        /\ resp' = [R EXCEPT !.status = 404, !.detail = "No files found"]
                        /\ store' = store
                   ELSE
                        /\ store' = remove_objects(store, video_bucket,
                                                   objects_to_delete \ in.del_errors)
                        /\ resp' =
                            IF in.del_errors # {}
                            THEN [R EXCEPT !.status = 500, !.listed = objects_to_delete,
                                           !.failed = "delete",
                                           !.detail = "Failed to delete one or more files"]
                            ELSE [R EXCEPT !.status = 200, !.listed = objects_to_delete,
                                           !.detail = "Stream deleted"]
    /\ UNCHANGED <<secret, fs, raw, signed>>

\* @app.get("/asset/{bucket_name}/{img_path:path}/thumbnail")
serve_signed_thumbnail ==
    /\ resp = Idle
    /\ \E bucket_name \in {ImgBucket}, img_path \in {ImgPath}, sign_ok \in BOOLEAN :
        LET img_redis_key == <<bucket_name, "/">> \o img_path
            cached_url == get_cached_playlist(redis, img_redis_key)
            signed_url == presigned_get_object(bucket_name, img_path, URL_EXPIRES_SECONDS)
            R == [Idle EXCEPT !.op = "thumbnail_url", !.name = img_redis_key,
                              !.bucket = bucket_name]
        IN  IF Truthy(cached_url) THEN
                /\ resp' = [R EXCEPT !.status = 200, !.body = cached_url, !.hit = TRUE]
                /\ redis' = redis
            ELSE IF ~sign_ok THEN
                /\ resp' = [R EXCEPT !.status = 404, !.signs = 1,
                                     !.detail = "Error getting signed thumbnail"]
                /\ redis' = redis
            ELSE
                /\ resp' = [R EXCEPT !.status = 200, !.body = signed_url, !.signs = 1]
                /\ redis' = set_cached_playlist(redis, img_redis_key, signed_url)
    /\ UNCHANGED <<secret, store, fs, raw, signed>>

\* @app.get("/stream/{bucket_name}/{img_path:path}/thumbnail")
stream_thumbnail_image ==
    /\ resp = Idle
    /\ \E bucket_name \in {ImgBucket}, img_path \in {ImgPath},
          sign_ok \in BOOLEAN, fetch_ok \in BOOLEAN :
        LET img_redis_key == <<bucket_name, "/">> \o img_path
            cached_url == get_cached_thumbnail(redis, img_redis_key)
            signed_url == presigned_get_object(bucket_name, img_path, URL_EXPIRES_SECONDS)
            R == [Idle EXCEPT !.op = "thumbnail_image", !.name = img_redis_key,
                              !.bucket = bucket_name, !.hit = Truthy(cached_url),
                              !.signs = IF Truthy(cached_url) THEN 0 ELSE 1]
        IN  IF ~Truthy(cached_url) /\ ~sign_ok THEN
                /\ resp' = [R EXCEPT !.status = 404,
                                     !.detail = "Error generating signed URL"]
                /\ redis' = redis
            ELSE
                /\ redis' = IF Truthy(cached_url) THEN redis
                            ELSE set_cached_thumbnail(redis, img_redis_key, signed_url)
                /\ resp' =
                    IF Has(store, bucket_name, img_path) /\ fetch_ok
                    THEN [R EXCEPT !.status = 200, !.body = store[bucket_name][img_path]]
                    ELSE [R EXCEPT !.status = 502,
                                   !.detail = "Failed to fetch image from MinIO"]
    /\ UNCHANGED <<secret, store, fs, raw, signed>>

\* @app.delete("/cache/img/{img_path:path}")
delete_cache_img ==
    /\ resp = Idle
    /\ \E img_path \in ImgKeys, x_api_key \in Headers :
        LET R == [Idle EXCEPT !.op = "delete_cache_img", !.name = img_path,
                              !.hdr = x_api_key]
        IN  IF ~Authorized(x_api_key) THEN
                /\ resp' = [R EXCEPT !.status = 403, !.detail = "Unauthorized"]
                /\ redis' = redis
            ELSE
                /\ resp' = [R EXCEPT !.status = 200,
                               !.detail =
                                  IF redis_deleted(redis, <<REDIS_IMAGE_PREFIX, img_path>>) > 0
                                  THEN "Cache cleared" ELSE "Cache error"]
                /\ redis' = invalidate_thumbnail_cache(redis, img_path)
    /\ UNCHANGED <<secret, store, fs, raw, signed>>

\* setex: Redis drops an entry once its TTL has run out
redis_expire ==
    /\ resp = Idle
    /\ \E key \in RedisKeys :
        /\ redis[key].present
        /\ redis' = redis_delete(redis, key)
    /\ UNCHANGED <<secret, store, fs, resp, raw, signed>>

\* the handler has returned: the response leaves the worker
Respond ==
    /\ resp # Idle
    /\ resp' = Idle
    /\ UNCHANGED <<secret, store, redis, fs, raw, signed>>

\* The video pipeline: playlist requests, transcode jobs, and the deletions
\* of playlist cache entries and streams, one request at a time.
Next ==
    \/ serve_signed_playlist_stream /\ UNCHANGED aux
    \/ serve_signed_playlist_video /\ UNCHANGED aux
    \/ post_transcode /\ UNCHANGED aux
    \/ delete_cache_video /\ UNCHANGED aux
    \/ delete_stream_video /\ UNCHANGED aux
    \/ redis_expire /\ UNCHANGED aux
    \/ Respond /\ UNCHANGED aux

Spec == Init /\ [][Next]_vars

\* The thumbnail endpoints, with the deletions of cache entries of both
\* namespaces, one request at a time.
ThumbNext ==
    \/ serve_signed_thumbnail /\ UNCHANGED aux
    \/ stream_thumbnail_image /\ UNCHANGED aux
    \/ delete_cache_img /\ UNCHANGED aux
    \/ delete_cache_video /\ UNCHANGED aux
    \/ redis_expire /\ UNCHANGED aux
    \/ Respond /\ UNCHANGED aux

ThumbSpec == Init /\ [][ThumbNext]_vars

----------------------------------------------------------------------------
(* Concurrent requests: each worker handles one request, step by step; a   *)
(* step is one access to the Object Store, the Cache Store or the working  *)
(* directory, and the steps of the workers interleave.                     *)

\* number of workers, each handling one request
NumWorkers == 2

Workers == 1..NumWorkers

\* the source media the concurrent requests are about, both in the bucket media
ConcSources == [k \in VideoPaths |-> <<"mp4">>]

Free ==
    [pc |-> "free", op |-> "", bucket |-> "", path |-> <<>>, reencode |-> FALSE,
     text |-> <<>>, i |-> 0, folder |-> <<>>, left |-> {}, uploads |-> 0,
     job |-> "", listed |-> {}, status |-> 0, cause |-> "", body |-> <<>>,
     hit |-> FALSE]

\* the request has been answered: what is left of it is its outcome
done(l, status, cause, body) ==
    [l EXCEPT !.pc = "done", !.status = status, !.cause = cause, !.body = body,
              !.text = <<>>, !.i = 0, !.folder = <<>>, !.left = {}, !.listed = {}]

\* tmp_data_folder / asset_object, and local_hls / relative_path
tmp_data_of(folder, asset_object) == folder \o <<"/">> \o asset_object
local_hls_of(folder, video_name) == folder \o <<"/">> \o video_name
hls_file_of(folder, video_name, file) == local_hls_of(folder, video_name) \o <<"/">> \o file

\* the working directory with the files written
write_files(d, files) ==
    [f \in DOMAIN d \cup DOMAIN files |-> IF f \in DOMAIN files THEN files[f] ELSE d[f]]

\* shutil.rmtree(folder) on the files
rmtree_files(d, folder) == [f \in {g \in DOMAIN d : ~IsPrefix(folder, g)} |-> d[f]]

\* a request arrives: GET /stream/media/{video_path}/playlist.m3u8?reencode=...
receive_playlist_request(w) ==
    /\ proc[w].pc = "free"
    /\ \E video_path \in DOMAIN ConcSources, reencode \in BOOLEAN :
        proc' = [proc EXCEPT ![w] = [Free EXCEPT !.pc = "cache", !.op = "stream_playlist",
                                                  !.bucket = "media", !.path = video_path,
                                                  !.reencode = reencode]]
    /\ UNCHANGED <<secret, store, redis, fs, resp, raw, signed, now, hist, disk>>

\* a request arrives: DELETE /stream/{video_bucket}/{video_path}/playlist.m3u8
\* with the configured x-api-key
receive_delete_request(w) ==
    /\ proc[w].pc = "free"
    /\ Authorized("s3cret")
    /\ \E video_bucket \in Buckets, video_path \in DOMAIN ConcSources :
        proc' = [proc EXCEPT ![w] = [Free EXCEPT !.pc = "invalidate", !.op = "delete_stream",
                                                  !.bucket = video_bucket, !.path = video_path]]
    /\ UNCHANGED <<secret, store, redis, fs, resp, raw, signed, now, hist, disk>>

\* lines 130-133: the cache lookup
playlist_cache_lookup(w) ==
    /\ proc[w].pc = "cache"
    /\ LET cached == get_cached_playlist(redis, stem(proc[w].path)) IN
        proc' = [proc EXCEPT ![w] =
                    IF Truthy(cached) THEN [done(@, 200, "", cached) EXCEPT !.hit = TRUE]
                    ELSE [@ EXCEPT !.pc = "read"]]
    /\ UNCHANGED <<secret, store, redis, fs, resp, raw, signed, now, hist, disk>>

\* lines 136-142: the first read of the playlist; when it raises, the job is
\* posted with the configured key and the Runner takes it up
playlist_first_read(w) ==
    /\ proc[w].pc = "read"
    /\ LET playlist_key == playlist_key_of(stem(proc[w].path)) IN
        proc' = [proc EXCEPT ![w] =
                    IF Has(store, MINIO_BUCKET_VOD, playlist_key)
                    THEN [@ EXCEPT !.pc = "sign", !.text = store[MINIO_BUCKET_VOD][playlist_key]]
                    ELSE [@ EXCEPT !.pc = "download"]]
    /\ UNCHANGED <<secret, store, redis, fs, resp, raw, signed, now, hist, disk>>

\* download_file: the workspace is named after uuid4().hex[:6] and made with
\* exist_ok=True; when the source cannot be fetched the except clause removes
\* the folder, and auto_transcode returns False
job_download(w) ==
    /\ proc[w].pc = "download"
    /\ \E folder \in WorkspaceIds :
        IF Has(store, proc[w].bucket, proc[w].path) THEN
            /\ fs' = fs \cup {folder}
            /\ disk' = write_files(disk,
                            [f \in {tmp_data_of(folder, proc[w].path)} |->
                                store[proc[w].bucket][proc[w].path]])
            /\ proc' = [proc EXCEPT ![w] = [@ EXCEPT !.pc = "ffmpeg", !.folder = folder]]
        ELSE
            /\ fs' = transcode_finally(download_file_except(fs \cup {folder}, folder),
                                       FALSE, folder)
            /\ disk' = rmtree_files(disk, folder)
            /\ proc' = [proc EXCEPT ![w] =
                            done([@ EXCEPT !.job = "failed"],
                                 transcoding_exception(500, "Auto-transcoding failed").status,
                                 "Auto-transcoding failed", <<>>)]
    /\ UNCHANGED <<secret, store, redis, resp, raw, signed, now, hist>>

\* lines 184-187: local_hls.mkdir(parents=True, exist_ok=True), then ffmpeg,
\* which fails when its input file is no longer there
job_convert(w) ==
    /\ proc[w].pc = "ffmpeg"
    /\ fs' = fs \cup {proc[w].folder}
    /\ IF tmp_data_of(proc[w].folder, proc[w].path) \in DOMAIN disk THEN
            /\ disk' = write_files(disk,
                    [f \in {hls_file_of(proc[w].folder, stem(proc[w].path), h) : h \in HlsFiles} |->
                        convert_to_hls(proc[w].reencode)[
                            SubSeq(f, Len(local_hls_of(proc[w].folder, stem(proc[w].path))) + 2,
                                   Len(f))]])
            /\ proc' = [proc EXCEPT ![w] = [@ EXCEPT !.pc = "list"]]
        ELSE
            /\ disk' = disk
            /\ proc' = [proc EXCEPT ![w] = [@ EXCEPT !.pc = "finally", !.job = "failed"]]
    /\ UNCHANGED <<secret, store, redis, resp, raw, signed, now, hist>>

\* line 164: local_dir.rglob("*") reads the directory when the loop starts; a
\* directory that is not there yields nothing
job_list_folder(w) ==
    /\ proc[w].pc = "list"
    /\ proc' = [proc EXCEPT ![w] =
                    [@ EXCEPT !.pc = "upload",
                              !.left = {h \in HlsFiles :
                                          hls_file_of(proc[w].folder, stem(proc[w].path), h)
                                              \in DOMAIN disk}]]
    /\ UNCHANGED <<secret, store, redis, fs, resp, raw, signed, now, hist, disk>>

\* lines 165-168: the next file of the loop is uploaded; a file that is no
\* longer there ends the job with an error; after the last file the job has
\* succeeded
job_upload(w) ==
    /\ proc[w].pc = "upload"
    /\ IF proc[w].left = {} THEN
            /\ proc' = [proc EXCEPT ![w] = [@ EXCEPT !.pc = "finally", !.job = "success"]]
            /\ store' = store
        ELSE \E h \in proc[w].left :
            LET file == hls_file_of(proc[w].folder, stem(proc[w].path), h) IN
            IF file \in DOMAIN disk THEN
                /\ store' = upload_file(store, MINIO_BUCKET_VOD,
                                        object_name_of(stem(proc[w].path), h), disk[file])
                /\ proc' = [proc EXCEPT ![w] = [@ EXCEPT !.left = @ \ {h},
                                                         !.uploads = @ + 1]]
            ELSE
                /\ store' = store
                /\ proc' = [proc EXCEPT ![w] = [@ EXCEPT !.pc = "finally", !.job = "failed",
                                                         !.left = {}]]
    /\ UNCHANGED <<secret, redis, fs, resp, raw, signed, now, hist, disk>>

\* lines 196-203: the finally clause removes the workspace, and the answer
\* goes back to auto_transcode: True on 200, False otherwise
job_finally(w) ==
    /\ proc[w].pc = "finally"
    /\ fs' = transcode_finally(fs, TRUE, proc[w].folder)
    /\ disk' = rmtree_files(disk, proc[w].folder)
    /\ proc' = [proc EXCEPT ![w] =
                    IF proc[w].job = "success"
                    THEN [@ EXCEPT !.pc = "poll", !.i = 1, !.folder = <<>>]
                    ELSE done(@, transcoding_exception(500, "Auto-transcoding failed").status,
                              "Auto-transcoding failed", <<>>)]
    /\ UNCHANGED <<secret, store, redis, resp, raw, signed, now, hist>>

\* lines 148-156: one attempt of the poll loop
playlist_poll(w) ==
    /\ proc[w].pc = "poll"
    /\ LET playlist_key == playlist_key_of(stem(proc[w].path)) IN
        proc' = [proc EXCEPT ![w] =
                    IF Has(store, MINIO_BUCKET_VOD, playlist_key)
                    THEN [@ EXCEPT !.pc = "sign", !.i = 0,
                                   !.text = store[MINIO_BUCKET_VOD][playlist_key]]
                    ELSE IF proc[w].i < POLL_ATTEMPTS THEN [@ EXCEPT !.i = @ + 1]
                    ELSE done(@, transcoding_exception(504,
                                    "Playlist still not available after transcoding").status,
                              "Playlist still not available after transcoding", <<>>)]
    /\ UNCHANGED <<secret, store, redis, fs, resp, raw, signed, now, hist, disk>>

\* lines 160-179: the signing loop, then the cache write and the answer
playlist_sign_and_cache(w) ==
    /\ proc[w].pc = "sign"
    /\ \E d \in {sign_and_cache(redis, stem(proc[w].path), proc[w].text, 0)} :
        /\ redis' = d.redis
        /\ proc' = [proc EXCEPT ![w] = done(@, d.status, "", d.body)]
    /\ UNCHANGED <<secret, store, fs, resp, raw, signed, now, hist, disk>>

\* lines 203-208: delete stream invalidates the cache entry first
delete_invalidate(w) ==
    /\ proc[w].pc = "invalidate"
    /\ redis' = invalidate_playlist_cache(redis, stem(proc[w].path))
    /\ proc' = [proc EXCEPT ![w] = [@ EXCEPT !.pc = "list_objects"]]
    /\ UNCHANGED <<secret, store, fs, resp, raw, signed, now, hist, disk>>

\* lines 211-217: then lists the objects under the prefix
delete_list(w) ==
    /\ proc[w].pc = "list_objects"
    /\ LET objects_to_delete == list_objects(store, proc[w].bucket, stem(proc[w].path)) IN
        proc' = [proc EXCEPT ![w] =
                    IF objects_to_delete = {} THEN done(@, 404, "No files found", <<>>)
                    ELSE [@ EXCEPT !.pc = "remove", !.listed = objects_to_delete]]
    /\ UNCHANGED <<secret, store, redis, fs, resp, raw, signed, now, hist, disk>>

\* lines 223-245: then removes them, every deletion succeeding, and answers
delete_remove(w) ==
    /\ proc[w].pc = "remove"
    /\ store' = remove_objects(store, proc[w].bucket, proc[w].listed)
    /\ proc' = [proc EXCEPT ![w] = done(@, 200, "Stream deleted", <<>>)]
    /\ UNCHANGED <<secret, redis, fs, resp, raw, signed, now, hist, disk>>

ConcNext ==
    \E w \in Workers :
        \/ receive_playlist_request(w)
        \/ receive_delete_request(w)
        \/ playlist_cache_lookup(w)
        \/ playlist_first_read(w)
        \/ job_download(w)
        \/ job_convert(w)
        \/ job_list_folder(w)
        \/ job_upload(w)
        \/ job_finally(w)
        \/ playlist_poll(w)
        \/ playlist_sign_and_cache(w)
        \/ delete_invalidate(w)
        \/ delete_list(w)
        \/ delete_remove(w)

\* the secret is set, the sources are in the bucket media and not transcoded
\* yet, nothing is cached, every worker is free
ConcInit ==
    /\ secret = "s3cret"
    /\ store = [b \in Buckets |->
                    IF b = MINIO_BUCKET_VOD THEN [k \in {} |-> <<>>] ELSE ConcSources]
    /\ redis = [k \in RedisKeys |-> NoEntry]
    /\ fs = {}
    /\ resp = Idle
    /\ raw = <<>>
    /\ signed = Unsigned
    /\ now = 0
    /\ hist = NoHist
    /\ proc = [w \in Workers |-> Free]
    /\ disk = NoFiles

ConcSpec == ConcInit /\ [][ConcNext]_vars

----------------------------------------------------------------------------
(* Asset identities: which asset each playlist cache entry was written for *)

\* a second source whose file name is that of a.mp4
KeyPaths == VideoPaths \cup {<<"d", "/", "a", ".mp4">>}

\* the writers of the entries the cache still holds
writers_of(writer, r) ==
    [n \in VideoNames |-> IF r[<<REDIS_VIDEO_PREFIX, n>>].present THEN writer[n] ELSE <<>>]

\* a playlist request of the multi-bucket route, the history keeping its asset
\* identity and, if it wrote the cache, that the entry is its own
identified_stream_request ==
    /\ resp = Idle
    /\ \E video_bucket \in Buckets, video_path \in KeyPaths, reencode \in BOOLEAN :
        /\ stream_request(video_bucket, video_path, reencode)
        /\ hist' = [req |-> <<video_bucket, video_path>>,
                    writer |->
                        [n \in VideoNames |->
                            IF redis'[<<REDIS_VIDEO_PREFIX, n>>] # redis[<<REDIS_VIDEO_PREFIX, n>>]
                            THEN <<video_bucket, video_path>>
                            ELSE hist.writer[n]]]
    /\ UNCHANGED <<secret, raw, signed, now, proc, disk>>

identified_expire ==
    /\ redis_expire
    /\ hist' = [hist EXCEPT !.writer = writers_of(hist.writer, redis')]
    /\ UNCHANGED <<now, proc, disk>>

KeyNext ==
    \/ identified_stream_request
    \/ identified_expire
    \/ Respond /\ UNCHANGED aux

KeyInit ==
    /\ Init
    /\ secret = "s3cret"
    /\ \A b \in Buckets : \A key \in DOMAIN store[b] : store[b][key] # <<>>

KeySpec == KeyInit /\ [][KeyNext]_vars

----------------------------------------------------------------------------
(* Time: the cache's expiry against the expiry of the signed URLs *)

\* the clock advances TickSeconds at a time, MaxTicks times
TickSeconds == 900
MaxTicks == 3

Instants == {i * TickSeconds : i \in 0..MaxTicks}

\* Redis no longer returns an entry ttl seconds after its setex
redis_expired(entry, t) == entry.present /\ t >= entry.at + entry.ttl

\* time passes between two requests; the entries whose TTL has run out go
Tick ==
    /\ resp = Idle
    /\ now + TickSeconds \in Instants
    /\ now' = now + TickSeconds
    /\ redis' = [key \in RedisKeys |->
                    IF redis_expired(redis[key], now + TickSeconds) THEN NoEntry
                    ELSE redis[key]]
    /\ UNCHANGED <<secret, store, fs, resp, raw, signed, hist, proc, disk>>

\* The endpoints that sign and cache, one request at a time, under the clock.
TimeNext ==
    \/ serve_signed_playlist_video /\ UNCHANGED aux
    \/ serve_signed_playlist_stream /\ UNCHANGED aux
    \/ serve_signed_thumbnail /\ UNCHANGED aux
    \/ stream_thumbnail_image /\ UNCHANGED aux
    \/ Respond /\ UNCHANGED aux
    \/ Tick

\* at instant 0: the secret is set, ab is transcoded, a is not, nothing is cached
TimeInit ==
    /\ Init
    /\ secret = "s3cret"
    /\ \A b \in Buckets : \A key \in DOMAIN store[b] : store[b][key] # <<>>

TimeSpec == TimeInit /\ [][TimeNext]_vars

----------------------------------------------------------------------------
(* The Playlist Signer on every raw playlist of at most MaxTextLen tokens *)

SignerInit ==
    /\ raw \in Texts
    /\ signed = Unsigned
    /\ secret = None
    /\ store = [b \in Buckets |-> <<>>]
    /\ redis = [k \in RedisKeys |-> NoEntry]
    /\ fs = {}
    /\ resp = Idle
    /\ now = 0
    /\ hist = NoHist
    /\ proc = NoWorkers
    /\ disk = NoFiles

\* one signing pass over raw, as serve_signed_playlist runs it
SignPass ==
    /\ signed = Unsigned
    /\ \E video_name \in VideoNames, failAt \in 0..Len(splitlines(raw)) :
        \E s \in {sign_playlist(raw, video_name, failAt)} :
            signed' = [ok |-> s.ok, lines |-> s.lines, calls |-> s.calls,
                       name |-> video_name, failAt |-> failAt]
    /\ UNCHANGED <<secret, store, redis, fs, resp, raw>>

SignerNext == SignPass /\ UNCHANGED aux

SignerSpec == SignerInit /\ [][SignerNext]_vars

----------------------------------------------------------------------------
(* Claims *)

SubmissionFailed == "Auto-transcoding failed"
PollExhausted == "Playlist still not available after transcoding"

\* C1: on the multi-bucket playlist route, a request whose job submission
\* succeeded and whose poll loop ran out ends with status 504, and a request
\* whose job submission failed ends with status 500, so the two causes are
\* told apart by the status.
C1_DeadlineExceededDistinct ==
    resp.op = "stream_playlist" =>
        /\ resp.cause = PollExhausted => resp.status = 504
        /\ resp.cause = SubmissionFailed => resp.status = 500

\* C2 as stated: a multi-bucket playlist request whose submission succeeds
\* and to which the store never returns the playlist fails after exactly 10
\* playlist reads, and writes nothing to the cache.
C2_ExactlyTenChecks ==
    [][(resp'.op = "stream_playlist" /\ resp'.cause = PollExhausted)
        => (resp'.status >= 400 /\ resp'.reads = POLL_ATTEMPTS /\ redis' = redis)]_vars

\* C2 amended: such a request fails after exactly 11 playlist reads, the
\* first read and the 10 poll attempts, and writes nothing to the cache.
C2_ElevenChecks ==
    [][(resp'.op = "stream_playlist" /\ resp'.cause = PollExhausted)
        => (resp'.status >= 400 /\ resp'.reads = POLL_ATTEMPTS + 1 /\ redis' = redis)]_vars

C2_Witness ==
    /\ resp.op = "stream_playlist"
    /\ resp.cause = PollExhausted
    /\ resp.submits = 1
    /\ resp.k = POLL_ATTEMPTS + 1
    /\ resp.reads = POLL_ATTEMPTS + 1

\* C3 as stated: when the store fails the request's first 9 playlist reads
\* and returns the playlist on the 10th (the first read and 8 poll attempts
\* fail, poll attempt 9 succeeds), the request succeeds with exactly 10 reads
\* and 9 one-second waits.
C3_TenChecksNineWaits ==
    (resp.op = "stream_playlist" /\ resp.status = 200 /\ resp.k = 9)
        => (resp.reads = 10 /\ resp.sleeps = 9)

\* C3 amended: in that case the request succeeds with exactly 10 reads and 8
\* one-second waits; in general a request served by poll attempt k has
\* issued k + 1 reads, none after the successful one, and waited k - 1 times
\* (once after each failed poll attempt, not after the first read).
C3_TenChecksEightWaits ==
    /\ (resp.op = "stream_playlist" /\ resp.status = 200 /\ resp.k = 9)
        => (resp.reads = 10 /\ resp.sleeps = 8)
    /\ (resp.op = "stream_playlist" /\ resp.status = 200 /\ resp.k > 0)
        => (resp.k <= POLL_ATTEMPTS /\ resp.reads = resp.k + 1
            /\ resp.sleeps = resp.k - 1)

C3_Witness ==
    /\ resp.op = "stream_playlist"
    /\ resp.status = 200
    /\ resp.k = 9
    /\ resp.reads = 10
    /\ resp.sleeps = 8

PlaylistOps == {"stream_playlist", "video_playlist"}
AuthenticatedOps == {"transcode", "delete_cache_video", "delete_cache_img", "delete_stream"}

PlaylistEntry(r, name) == r[<<REDIS_VIDEO_PREFIX, name>>]

\* no line of the text is a segment reference still to be signed
CompletelySigned(text) ==
    \A i \in 1..Len(splitlines(text)) : ~endswith_ts(strip(splitlines(text)[i]))

\* C4: every value in the playlist cache is a completely signed playlist; a
\* playlist request writes the cache only when it succeeds, after the raw
\* playlist was read and every segment line signed, and what it writes is the
\* text it returns; a playlist request that fails leaves the cache unchanged.
C4_CacheOnlyAfterSigning ==
    [][/\ \A n \in CacheNames :
            PlaylistEntry(redis', n).present => CompletelySigned(PlaylistEntry(redis', n).text)
       /\ (resp'.op \in PlaylistOps /\ resp'.status # 200) => redis' = redis
       /\ (resp'.op \in PlaylistOps /\ redis' # redis) =>
            /\ resp'.status = 200
            /\ resp'.reads >= 1
            /\ PlaylistEntry(redis', resp'.name).present
            /\ PlaylistEntry(redis', resp'.name).text = resp'.body
            /\ \A n \in CacheNames \ {resp'.name} :
                    PlaylistEntry(redis', n) = PlaylistEntry(redis, n)]_vars

C4_Witness ==
    /\ resp.op = "stream_playlist"
    /\ resp.detail = "Error signing"
    /\ resp.submits = 1
    /\ resp.signs >= 1
    /\ ~PlaylistEntry(redis, resp.name).present

\* C5: a playlist request that finds an entry under its cache key returns the
\* text of that entry, whatever the text, without reading the Object Store,
\* submitting a job, signing or writing anything.
C5_CacheHitReturnsEntry ==
    [][(resp'.op \in PlaylistOps /\ PlaylistEntry(redis, resp'.name).present) =>
            /\ resp'.status = 200
            /\ resp'.body = PlaylistEntry(redis, resp'.name).text
            /\ resp'.reads = 0 /\ resp'.submits = 0 /\ resp'.signs = 0
            /\ UNCHANGED <<redis, store, fs>>]_vars

RawLines == splitlines(raw)

\* C6 as stated: the signing pass keeps the number and order of the lines,
\* leaves every line that does not end in .ts exactly as it is, and replaces
\* every line that ends in .ts by the URL signed for {video_name}/{line} with
\* a 1-hour expiry.
C6_NonSegmentLinesVerbatim ==
    signed.ok =>
        /\ Len(signed.lines) = Len(RawLines)
        /\ \A i \in 1..Len(RawLines) :
            IF endswith_ts(RawLines[i])
            THEN signed.lines[i] =
                    presigned_get_object(MINIO_BUCKET_VOD,
                        ts_key_of(signed.name, RawLines[i]), 3600)
            ELSE signed.lines[i] = RawLines[i]

\* C6 amended: the signing pass keeps the number and order of the lines of
\* raw.splitlines(); a line whose text, stripped of surrounding whitespace,
\* does not end in .ts is left exactly as it is; a line whose stripped text
\* ends in .ts is replaced by the URL signed for {video_name}/{stripped line}
\* with a 1-hour expiry.
C6_SignerLineByLine ==
    signed.ok =>
        /\ Len(signed.lines) = Len(RawLines)
        /\ \A i \in 1..Len(RawLines) :
            IF endswith_ts(strip(RawLines[i]))
            THEN signed.lines[i] =
                    presigned_get_object(MINIO_BUCKET_VOD,
                        ts_key_of(signed.name, strip(RawLines[i])), 3600)
            ELSE signed.lines[i] = RawLines[i]

C6_Witness ==
    /\ signed.ok
    /\ raw = <<"#EXTM3U", NL, "seg0", TS>>
    /\ Len(signed.lines) = 2
    /\ signed.lines[1] = <<"#EXTM3U">>
    /\ signed.calls = 1

\* C7: an authenticated operation called with no x-api-key header, or with
\* one that differs from the configured secret, answers 403 and changes
\* neither the cache, nor the Object Store, nor the workspace; whatever the
\* configuration of the secret, unset included.
C7_RejectsBadSecret ==
    [][(resp'.op \in AuthenticatedOps /\ (resp'.hdr = None \/ resp'.hdr # secret)) =>
            /\ resp'.status = 403
            /\ UNCHANGED <<redis, store, fs>>]_vars

\* C8: an accepted delete stream, the listing and every deletion succeeding:
\* if objects are listed under the prefix, all of them are removed, no other
\* object changes, the playlist cache holds no entry for the video_name and
\* the answer is 200; if none is listed, the answer is 404 and no object is
\* deleted.
C8_DeleteStream ==
    [][(resp'.op = "delete_stream" /\ resp'.status # 403 /\ resp'.failed = "") =>
        LET listed == list_objects(store, resp'.bucket, resp'.name) IN
        IF listed = {} THEN
            /\ resp'.status = 404
            /\ store' = store
        ELSE
            /\ resp'.status = 200
            /\ DOMAIN store'[resp'.bucket] = DOMAIN store[resp'.bucket] \ listed
            /\ \A b \in Buckets : \A k \in DOMAIN store'[b] : store'[b][k] = store[b][k]
            /\ \A b \in Buckets \ {resp'.bucket} : store'[b] = store[b]
            /\ ~PlaylistEntry(redis', resp'.name).present]_vars

C8_Witness ==
    /\ resp.op = "delete_stream"
    /\ resp.status = 200
    /\ Cardinality(resp.listed) >= 2
    /\ list_objects(store, resp.bucket, resp.name) = {}

\* C9: an accepted DELETE /cache/video/{name} answers 200 and never touches
\* the Object Store; it removes at most the playlist cache entry of name, and
\* when there is no such entry it changes nothing.
C9_InvalidateJustOneKey ==
    [][(resp'.op = "delete_cache_video" /\ resp'.status # 403) =>
            /\ resp'.status = 200
            /\ UNCHANGED <<store, fs>>
            /\ \A key \in RedisKeys \ {<<REDIS_VIDEO_PREFIX, resp'.name>>} :
                    redis'[key] = redis[key]
            /\ ~PlaylistEntry(redis', resp'.name).present
            /\ ~PlaylistEntry(redis, resp'.name).present =>
                    (redis' = redis /\ resp'.detail = "Cache error")]_vars

C9_Witness ==
    /\ resp.op = "delete_cache_video"
    /\ resp.hdr = "s3cret"
    /\ resp.status = 200
    /\ resp.detail = "Cache error"
    /\ \E key \in RedisKeys : redis[key].present

\* C10: once a Runner invocation that passed the header check has ended,
\* whichever step failed or none, no temporary workspace exists.
C10_NoWorkspaceLeft ==
    ((resp.op = "transcode" /\ resp.failed # "auth") \/ resp.submits = 1) => fs = {}

C10_Witness ==
    /\ resp.op = "transcode"
    /\ resp.failed = "download"
    /\ resp.status = 500
    /\ fs = {}

ThumbnailOps == {"thumbnail_url", "thumbnail_image"}

ThumbnailEntry(r, img_key) == r[<<REDIS_IMAGE_PREFIX, img_key>>]

\* C15: a thumbnail request writes no key of the playlist namespace, and what
\* it writes is the thumbnail entry of its key; a thumbnail request, on either
\* endpoint, is a cache hit only when the thumbnail namespace holds an entry
\* for its key, so that after DELETE /cache/img for the key the next request
\* is a miss.
C15_ThumbnailNamespace ==
    [][(resp'.op \in ThumbnailOps) =>
        /\ \A key \in RedisKeys :
                redis'[key] # redis[key] => key = <<REDIS_IMAGE_PREFIX, resp'.name>>
        /\ resp'.hit => ThumbnailEntry(redis, resp'.name).present]_vars

\* a job was submitted and did not report success
JobFailures == {"net", "auth", "download", "ffmpeg", "upload"}

\* C16: a multi-bucket playlist request whose job submission fails (no
\* answer, or an answer that is not 2xx, the transcoder's failure included)
\* ends with the error of a failed submission, having issued no playlist read
\* after the submission and no wait, and leaves the cache unchanged; no
\* playlist request submits more than one job.
C16_FailedSubmissionFailsRequest ==
    [][(resp'.op \in PlaylistOps) =>
        /\ resp'.submits <= 1
        /\ (resp'.op = "video_playlist") => resp'.submits = 0
        /\ (resp'.failed \in JobFailures) =>
                /\ resp'.submits = 1
                /\ resp'.status = 500
                /\ resp'.detail = "Transcoding exception"
                /\ resp'.cause = SubmissionFailed
                /\ resp'.reads = 1
                /\ resp'.sleeps = 0
                /\ redis' = redis]_vars

C16_Witness ==
    /\ resp.op = "stream_playlist"
    /\ resp.failed = "ffmpeg"
    /\ resp.status = 500
    /\ resp.cause = SubmissionFailed
    /\ resp.reads = 1

\* the Object Store holds, under {video_name}/, every file of one transcoder run
HoldsAsset(st, video_name) ==
    \E reencode \in BOOLEAN : \A f \in HlsFiles :
        /\ Has(st, MINIO_BUCKET_VOD, object_name_of(video_name, f))
        /\ st[MINIO_BUCKET_VOD][object_name_of(video_name, f)] = HlsContent(f, reencode)

\* C17: whenever a Runner invocation reports success, the VOD bucket holds,
\* under {video_name}/, index.m3u8 and every segment file the transcoder
\* produced in the workspace of that invocation (no delete stream is running
\* that could have removed them).
C17_SuccessMeansUploaded ==
    [][\A w \in Workers :
        (/\ \A v \in Workers : proc[v].op # "delete_stream"
         /\ proc[w].job = ""
         /\ proc'[w].job = "success") =>
            \A f \in HlsFiles :
                Has(store', MINIO_BUCKET_VOD, object_name_of(stem(proc[w].path), f))]_vars

\* C18: a delete stream for video_name N leaves unchanged every object whose
\* key is not under N/: the objects of an asset whose name begins with N, and
\* the source media object.
C18_DeleteStreamFrame ==
    [][(resp'.op = "delete_stream") =>
        \A b \in Buckets : \A key \in DOMAIN store[b] :
            ~IsPrefix(resp'.name \o <<"/">>, key) =>
                (key \in DOMAIN store'[b] /\ store'[b][key] = store[b][key])]_vars

\* the first read of a playlist request for video_name finds the playlist
ResolverFindsPlaylist(st, video_name) ==
    Has(st, MINIO_BUCKET_VOD, playlist_key_of(video_name))

\* C19: once a delete stream for an asset has answered 200, the playlist a
\* request for that asset reads is absent from the Object Store, so that the
\* request enters the lazy transcode; whatever the bucket of the request.
C19_DeletedStreamIsGone ==
    [][(resp'.op = "delete_stream" /\ resp'.status = 200) =>
            ~ResolverFindsPlaylist(store', resp'.name)]_vars

\* a line that is a signed URL, and the instant from which the Object Store
\* refuses it: X-Amz-Date + X-Amz-Expires
IsSignedUrl(line) == Len(line) >= 4 /\ line[Len(line) - 1] = "&X-Amz-Expires="

UrlExpiry(line) ==
    (CHOOSE t \in Instants : ToString(t) = line[Len(line) - 2])
    + (CHOOSE x \in {URL_EXPIRES_SECONDS} : ToString(x) = line[Len(line)])

\* the instant from which Redis no longer returns the entry
EntryExpiry(entry) == entry.at + entry.ttl

\* C13: at every instant, every cache entry of either namespace that a
\* request can still get has not run out, and every signed URL in it is still
\* accepted: the entry runs out strictly before each URL it holds, the cache
\* TTL being 2700 s, the URL TTL 3600 s, and the signing preceding the write.
C13_EntryExpiresBeforeItsUrls ==
    \A key \in RedisKeys :
        redis[key].present =>
            /\ redis[key].ttl = 2700
            /\ now < EntryExpiry(redis[key])
            /\ \A i \in 1..Len(splitlines(redis[key].text)) :
                    LET line == splitlines(redis[key].text)[i] IN
                    IsSignedUrl(line) =>
                        /\ UrlExpiry(line) = redis[key].at + 3600
                        /\ now < UrlExpiry(line)
                        /\ EntryExpiry(redis[key]) < UrlExpiry(line)

C13_Witness ==
    /\ now = 2 * TickSeconds
    /\ \E name \in VideoNames :
        /\ PlaylistEntry(redis, name).present
        /\ PlaylistEntry(redis, name).at = 0
        /\ \E i \in 1..Len(splitlines(PlaylistEntry(redis, name).text)) :
                IsSignedUrl(splitlines(PlaylistEntry(redis, name).text)[i])
    /\ \E img_key \in ImgKeys :
        /\ ThumbnailEntry(redis, img_key).present
        /\ ThumbnailEntry(redis, img_key).at = TickSeconds

\* C14: on the multi-bucket route, a request gets a cache hit only on an
\* entry written by a request for the same asset identity (bucket, path), and
\* overwrites only such an entry: distinct identities have distinct keys, two
\* paths of one file name included.
C14_EntryOfTheSameAsset ==
    [][(resp'.op = "stream_playlist") =>
        /\ resp'.hit => hist.writer[resp'.name] = hist'.req
        /\ (PlaylistEntry(redis, resp'.name).present
                /\ PlaylistEntry(redis', resp'.name) # PlaylistEntry(redis, resp'.name))
            => hist.writer[resp'.name] = hist'.req]_vars

\* every worker has answered a playlist request for the same asset
BothPlaylistRequestsDone ==
    \A w \in Workers :
        /\ proc[w].pc = "done"
        /\ proc[w].op = "stream_playlist"
        /\ proc[w].path = proc[1].path

\* C11: two concurrent playlist requests for the same asset, neither cached
\* nor transcoded, each with its own job, steps and uploads interleaving in
\* any way: once both have ended and a job has succeeded, the Object Store
\* holds one complete asset under {video_name}/, and every request that
\* succeeded has returned the final raw playlist, signed.
C11_ConcurrentRequestsOneAsset ==
    (BothPlaylistRequestsDone /\ \E w \in Workers : proc[w].job = "success") =>
        /\ HoldsAsset(store, stem(proc[1].path))
        /\ \A w \in Workers :
                proc[w].status = 200 =>
                    proc[w].body =
                        join(sign_playlist(
                                store[MINIO_BUCKET_VOD][playlist_key_of(stem(proc[1].path))],
                                stem(proc[1].path), 0).lines)

\* the invocation holds a workspace: from download_file's mkdir to the
\* rmtree of the finally clause
HoldsWorkspace(w) == proc[w].pc \in {"ffmpeg", "list", "upload", "finally"}

\* C12: no two Runner invocations alive at the same time hold the same
\* temporary workspace.
C12_WorkspaceExclusive ==
    \A v \in Workers : \A w \in Workers \ {v} :
        (HoldsWorkspace(v) /\ HoldsWorkspace(w)) => proc[v].folder # proc[w].folder

\* C20: when a delete stream reports success, the playlist cache holds no
\* entry for its asset, whatever the playlist requests running beside it did.
C20_NoEntryWhenStreamDeleted ==
    [][\A w \in Workers :
        (proc[w].pc = "remove" /\ proc'[w].pc = "done" /\ proc'[w].status = 200) =>
            ~PlaylistEntry(redis', stem(proc[w].path)).present]_vars

\* the keys f"{video_name}/{line.strip()}" of the segment lines of a raw playlist
segment_keys_of(m3u8_text, video_name) ==
    {ts_key_of(video_name, strip(splitlines(m3u8_text)[i])) :
        i \in {j \in 1..Len(splitlines(m3u8_text)) :
                    endswith_ts(strip(splitlines(m3u8_text)[j]))}}

\* C21: whenever the Resolver returns and caches a signed playlist it has read
\* from the Object Store, every segment object {video_name}/{segment_name} the
\* playlist refers to is in the VOD bucket, however the request interleaves
\* with the file-by-file upload of a running job (no delete stream is running
\* that could have removed a segment).
C21_SignedSegmentsExist ==
    [][\A w \in Workers :
        (/\ \A v \in Workers : proc[v].op # "delete_stream"
         /\ proc[w].pc = "sign"
         /\ proc'[w].pc = "done"
         /\ proc'[w].status = 200) =>
            \A key \in segment_keys_of(proc[w].text, stem(proc[w].path)) :
                Has(store', MINIO_BUCKET_VOD, key)]_vars

====
